---- MODULE Spec2Model ----
(***************************************************************************)
(* Model of the seedorm JSON document store: the JsonAdapter CRUD contract *)
(* (src/adapters/json/json-adapter.ts), the Indexer (indexer.ts), the      *)
(* FileEngine write queue and per-collection files (file-engine.ts), the   *)
(* query engine (query/filter.ts, query/operators.ts) and the Model layer  *)
(* with its relation resolver (model/model.ts, model/schema.ts).           *)
(*                                                                         *)
(* JavaScript Maps are modelled as functions whose DOMAIN is the key set:  *)
(* m.has(k) is k \in DOMAIN m.  Null is null; Missing is undefined where   *)
(* the code tells the two apart.                                           *)
(***************************************************************************)
EXTENDS Integers, Sequences, FiniteSets, TLC

\* ---------------------------------------------------------------- bounds
MaxId == 2
MaxEmail == 2
MaxAge == 1
MaxQueue == 2
MaxDocs == 2
MaxLen == 3
MaxOffset == 2
MaxLimit == 2
MaxRel == 2
MaxJoin == 2
MaxItems == 3
MaxNumber == 3
MaxStr == 2

\* ------------------------------------------------------------ value space
Null == 0
\* doc[field] of a field the document does not carry (undefined).
Missing == -1
Undefined == "undefined"
Users == "users"
Colls == {Users}
Ids == 1..MaxId
EmailVals == 0..MaxEmail
AgeVals == 0..MaxAge
Fields == {"id", "email", "age"}

FieldVals(f) == IF f = "id" THEN Ids ELSE IF f = "email" THEN EmailVals ELSE AgeVals

\* A stored document: every field present, Null standing for null.
Docs == {d \in [Fields -> Ids \cup EmailVals \cup AgeVals] : \A f \in Fields : d[f] \in FieldVals(f)}

\* Partial<Document>: any subset of the fields.
Patches == UNION {{p \in [S -> Ids \cup EmailVals \cup AgeVals] : \A f \in S : p[f] \in FieldVals(f)} : S \in SUBSET Fields}

\* The schema of the adapter tests: email unique, age indexed, in this order.
UserSchema == <<[field |-> "email", unique |-> TRUE, index |-> TRUE],
                [field |-> "age", unique |-> FALSE, index |-> TRUE]>>

\* A schema declaring the indexed field before the unique one.
IndexFirstSchema == <<[field |-> "age", unique |-> FALSE, index |-> TRUE],
                      [field |-> "email", unique |-> TRUE, index |-> TRUE]>>

\* ------------------------------------------------------------ Map helpers
EmptyMap == <<>>
MapSet(m, k, v) == [x \in DOMAIN m \cup {k} |-> IF x = k THEN v ELSE m[x]]
MapDelete(m, k) == [x \in DOMAIN m \ {k} |-> m[x]]

\* ------------------------------------------------ query/operators.ts, filter.ts
\* A filter condition is either a bare value (shorthand for $eq) or an
\* operator object; ops maps operator names to integer operands.
BareCond(v) == [bare |-> TRUE, value |-> v, ops |-> EmptyMap]
OpCond(o) == [bare |-> FALSE, value |-> Null, ops |-> o]

IsNumber(v) == v # Null /\ v # Missing

applyOperator(key, fieldValue, operand) ==
  CASE key = "$eq" -> fieldValue = operand
    [] key = "$ne" -> fieldValue # operand
    [] key = "$gt" -> IsNumber(fieldValue) /\ IsNumber(operand) /\ fieldValue > operand
    [] key = "$gte" -> IsNumber(fieldValue) /\ IsNumber(operand) /\ fieldValue >= operand
    [] key = "$lt" -> IsNumber(fieldValue) /\ IsNumber(operand) /\ fieldValue < operand
    [] key = "$lte" -> IsNumber(fieldValue) /\ IsNumber(operand) /\ fieldValue <= operand
    [] key = "$in" -> \E i \in DOMAIN operand : operand[i] = fieldValue

isOperatorObject(condition) == ~condition.bare

matchesFilter(doc, filter) ==
  \A field \in DOMAIN filter :
    IF isOperatorObject(filter[field])
      THEN \A op \in DOMAIN filter[field].ops : applyOperator(op, doc[field], filter[field].ops[op])
      ELSE doc[field] = filter[field].value

FilterDocs(docs, filter) == SelectSeq(docs, LAMBDA d : matchesFilter(d, filter))

\* NoFilter is an absent options.filter.
NoFilter == [none |-> TRUE, query |-> EmptyMap]
SomeFilter(q) == [none |-> FALSE, query |-> q]

\* FindOptions: sort is the sequence of the sort object's entries (<<>> when
\* absent), offset 0 when absent, limit NoLimit when absent.
NoLimit == Missing
FindOptions(filter, sort, offset, limit) ==
  [filter |-> filter, sort |-> sort, offset |-> offset, limit |-> limit]
FilterOnly(filter) == FindOptions(filter, <<>>, 0, NoLimit)
SortKey(field, dir) == [field |-> field, dir |-> dir]

IsAbsent(v) == v = Missing \/ v = Null

\* The comparator sortDocuments passes to Array.prototype.sort: one round of
\* its loop over the sort keys; rest is what the following keys decide.
Ordered(av, bv, dir, rest) ==
  IF av = bv THEN rest
  ELSE IF IsAbsent(av) THEN dir
  ELSE IF IsAbsent(bv) THEN 0 - dir
  ELSE IF av < bv THEN 0 - dir
  ELSE IF av > bv THEN dir
  ELSE rest

RECURSIVE compare(_, _, _)
compare(a, b, sort) ==
  IF sort = <<>> THEN 0
  ELSE Ordered(a[Head(sort).field], b[Head(sort).field], Head(sort).dir,
               compare(a, b, Tail(sort)))

Reverse(arr) == [i \in DOMAIN arr |-> arr[Len(arr) + 1 - i]]
Min(a, b) == IF a < b THEN a ELSE b

\* Array.prototype.sort as Node runs it on an array shorter than 64: the
\* leading run is counted (and reversed when strictly descending), then the
\* remaining elements are placed by binary insertion.

RECURSIVE RunEnd(_, _, _, _)
RunEnd(arr, idx, isDescending, sort) ==
  IF idx > Len(arr) THEN idx - 1
  ELSE LET order == compare(arr[idx], arr[idx - 1], sort)
       IN IF (isDescending /\ order >= 0) \/ (~isDescending /\ order < 0) THEN idx - 1
          ELSE RunEnd(arr, idx + 1, isDescending, sort)



CountAndMakeRun(arr, sort) ==
  LET isDescending == compare(arr[2], arr[1], sort) < 0
      runLength == RunEnd(arr, 3, isDescending, sort)
  IN [arr |-> IF isDescending
                THEN Reverse(SubSeq(arr, 1, runLength)) \o SubSeq(arr, runLength + 1, Len(arr))
                ELSE arr,
      run |-> runLength]

\* left and right count elements from 0, as the engine does.
RECURSIVE InsertionPoint(_, _, _, _, _)
Narrowed(arr, pivot, left, right, sort, mid, before) ==
  InsertionPoint(arr, pivot, IF before THEN left ELSE mid + 1,
                 IF before THEN mid ELSE right, sort)
Halved(arr, pivot, left, right, sort, mid) ==
  Narrowed(arr, pivot, left, right, sort, mid, compare(pivot, arr[mid + 1], sort) < 0)
InsertionPoint(arr, pivot, left, right, sort) ==
  IF left >= right THEN left
  ELSE Halved(arr, pivot, left, right, sort, left + ((right - left) \div 2))

RECURSIVE BinaryInsertionSort(_, _, _)
BinaryInsertionSort(arr, start, sort) ==
  IF start >= Len(arr) THEN arr
  ELSE LET pivot == arr[start + 1]
           left == InsertionPoint(arr, pivot, 0, start, sort)
       IN BinaryInsertionSort(SubSeq(arr, 1, left) \o <<pivot>> \o SubSeq(arr, left + 1, start)
                                \o SubSeq(arr, start + 2, Len(arr)),
                              start + 1, sort)

\* [...docs].sort(comparator)
sortDocuments(docs, sort) ==
  IF Len(docs) < 2 THEN docs
  ELSE LET r == CountAndMakeRun(docs, sort)
       IN BinaryInsertionSort(r.arr, r.run, sort)

\* result.slice(offset) and result.slice(0, limit)
SliceFrom(arr, offset) == SubSeq(arr, Min(offset, Len(arr)) + 1, Len(arr))
SliceTo(arr, limit) == SubSeq(arr, 1, Min(limit, Len(arr)))

\* The steps of applyFindOptions, each on the result of the one before.
Filtered(docs, filter) == IF filter.none THEN docs ELSE FilterDocs(docs, filter.query)
Sorted(docs, sort) == IF sort = <<>> THEN docs ELSE sortDocuments(docs, sort)
Skipped(docs, offset) == IF offset # 0 THEN SliceFrom(docs, offset) ELSE docs
Limited(docs, limit) == IF limit # NoLimit THEN SliceTo(docs, limit) ELSE docs

\* Variant: the limit is applied before the offset.
applyLimitFirst(docs, options) ==
  Skipped(Limited(Sorted(Filtered(docs, options.filter), options.sort), options.limit), options.offset)

applyFindOptions(docs, options) ==
  Limited(Skipped(Sorted(Filtered(docs, options.filter), options.sort), options.offset), options.limit)

\* Variant: the filter is ignored.
countAll(docs, filter) == Len(docs)

countWithFilter(docs, filter) ==
  IF filter.none THEN Len(docs) ELSE Len(FilterDocs(docs, filter.query))

\* The filters the model's callers pass.
Queries ==
  {EmptyMap}
  \cup {[f \in {"email"} |-> BareCond(v)] : v \in EmailVals}
  \cup {[f \in {"age"} |-> OpCond([o \in {op} |-> v])] : op \in {"$gte", "$ne"}, v \in AgeVals \ {Null}}
  \cup {[f \in {"id"} |-> OpCond([o \in {"$gt", "$lte"} |-> IF o = "$gt" THEN 0 ELSE v])] : v \in Ids}

\* The filters the model's readers pass.
ReadQueries == {q \in Queries : DOMAIN q = {"age"}}

\* ----------------------------------------------------------- indexer.ts
\* A FieldIndex is [field, unique, map]; map: value -> set of document ids.
\* A collection's indexes are kept as a sequence in Map insertion order.
\* The code treats a missing map entry and an empty id set alike
\* (map.has(v) && size > 0, map.get(v)?.delete), so map is a function on all
\* values of the field and {} stands for both.
NewMap(field) == [v \in FieldVals(field) \ {Null} |-> {}]

AddId(map, val, id) == [map EXCEPT ![val] = @ \cup {id}]

RemoveId(map, val, id) == [map EXCEPT ![val] = @ \ {id}]

\* Variant: the index starts empty, the loaded documents are not scanned.
ScanNone(map, field, docs) == map

\* The scan loop of setupIndex.
RECURSIVE ScanDocs(_, _, _)
Scanned(map, val, id) == IF val = Null THEN map ELSE AddId(map, val, id)
ScanDocs(map, field, docs) ==
  IF docs = <<>> THEN map
  ELSE ScanDocs(Scanned(map, Head(docs)[field], Head(docs)["id"]), field, Tail(docs))

IndexPos(colIndexes, field) ==
  IF \E i \in DOMAIN colIndexes : colIndexes[i].field = field
    THEN CHOOSE i \in DOMAIN colIndexes : colIndexes[i].field = field
    ELSE 0

\* Indexer.setupIndex: build the map by a full scan, then colIndexes.set.
setupIndex(idxs, collection, field, unique, docs) ==
  LET colIndexes == IF collection \in DOMAIN idxs THEN idxs[collection] ELSE <<>>
      idx == [field |-> field, unique |-> unique, map |-> ScanDocs(NewMap(field), field, docs)]
      pos == IndexPos(colIndexes, field)
  IN MapSet(idxs, collection,
            IF pos = 0 THEN Append(colIndexes, idx)
            ELSE [colIndexes EXCEPT ![pos] = idx])

\* Variant: the uniqueness check is left out.
NeverTaken(idx, val) == FALSE

\* idx.unique && idx.map.has(val) && idx.map.get(val).size > 0
UniqueTaken(idx, val) == idx.unique /\ idx.map[val] # {}

\* Indexer.onInsert: the loop over the collection's indexes; a throw leaves
\* the entries added by earlier iterations in place.
\* One round of the loop: the check, then the add.
InsertAt(colIndexes, i, id, idx, val) ==
  IF val = Null THEN [colIndexes |-> colIndexes, err |-> "none"]
  ELSE IF UniqueTaken(idx, val)
    THEN [colIndexes |-> colIndexes, err |-> "UniqueConstraintError"]
  ELSE [colIndexes |-> [colIndexes EXCEPT ![i].map = AddId(idx.map, val, id)],
        err |-> "none"]

RECURSIVE InsertLoop(_, _, _)
InsertNext(r, i, doc) ==
  IF r.err # "none" THEN r ELSE InsertLoop(r.colIndexes, i + 1, doc)
InsertLoop(colIndexes, i, doc) ==
  IF i > Len(colIndexes) THEN [colIndexes |-> colIndexes, err |-> "none"]
  ELSE InsertNext(InsertAt(colIndexes, i, doc["id"], colIndexes[i], doc[colIndexes[i].field]),
                  i, doc)


onInsert(idxs, collection, doc) ==
  IF collection \notin DOMAIN idxs THEN [indexes |-> idxs, err |-> "none"]
  ELSE LET r == InsertLoop(idxs[collection], 1, doc)
       IN [indexes |-> [idxs EXCEPT ![collection] = r.colIndexes], err |-> r.err]

\* The "Remove old" step of onUpdate, applied before the uniqueness check.
RemoveOld(map, oldVal, id) ==
  IF oldVal # Null THEN RemoveId(map, oldVal, id) ELSE map

\* Indexer.onUpdate: per index whose value changed, remove the old entry,
\* then check uniqueness of the new value, then add.
\* One round of the loop on an index whose value changed; removed is the
\* index after the "Remove old" step.
AddNew(colIndexes, i, id, removed, newVal) ==
  IF newVal = Null THEN [colIndexes |-> [colIndexes EXCEPT ![i] = removed], err |-> "none"]
  ELSE IF UniqueTaken(removed, newVal)
    THEN [colIndexes |-> [colIndexes EXCEPT ![i] = removed], err |-> "UniqueConstraintError"]
  ELSE [colIndexes |-> [colIndexes EXCEPT ![i] = [removed EXCEPT !.map = AddId(removed.map, newVal, id)]],
        err |-> "none"]
UpdateAt(colIndexes, i, id, idx, oldVal, newVal) ==
  IF oldVal = newVal THEN [colIndexes |-> colIndexes, err |-> "none"]
  ELSE AddNew(colIndexes, i, id, [idx EXCEPT !.map = RemoveOld(idx.map, oldVal, id)], newVal)

RECURSIVE UpdateLoop(_, _, _, _)
UpdateNext(r, i, oldDoc, newDoc) ==
  IF r.err # "none" THEN r ELSE UpdateLoop(r.colIndexes, i + 1, oldDoc, newDoc)
UpdateLoop(colIndexes, i, oldDoc, newDoc) ==
  IF i > Len(colIndexes) THEN [colIndexes |-> colIndexes, err |-> "none"]
  ELSE UpdateNext(UpdateAt(colIndexes, i, oldDoc["id"], colIndexes[i],
                           oldDoc[colIndexes[i].field], newDoc[colIndexes[i].field]),
                  i, oldDoc, newDoc)

onUpdate(idxs, collection, oldDoc, newDoc) ==
  IF collection \notin DOMAIN idxs THEN [indexes |-> idxs, err |-> "none"]
  ELSE LET r == UpdateLoop(idxs[collection], 1, oldDoc, newDoc)
       IN [indexes |-> [idxs EXCEPT ![collection] = r.colIndexes], err |-> r.err]

\* Indexer.onDelete: remove the id from every index's current-value set.
onDelete(idxs, collection, doc) ==
  IF collection \notin DOMAIN idxs THEN idxs
  ELSE [idxs EXCEPT ![collection] =
          [i \in DOMAIN idxs[collection] |->
             LET idx == idxs[collection][i]
                 val == doc[idx.field]
             IN IF val # Null THEN [idx EXCEPT !.map = RemoveId(idx.map, val, doc["id"])] ELSE idx]]

RECURSIVE DeleteAll(_, _, _)
DeleteAll(idxs, collection, docs) ==
  IF docs = <<>> THEN idxs
  ELSE DeleteAll(onDelete(idxs, collection, Head(docs)), collection, Tail(docs))

\* Indexer.findByValue
findByValue(idxs, collection, field, value) ==
  IF collection \in DOMAIN idxs /\ IndexPos(idxs[collection], field) # 0
     /\ value \in DOMAIN idxs[collection][IndexPos(idxs[collection], field)].map
    THEN idxs[collection][IndexPos(idxs[collection], field)].map[value]
    ELSE {}

\* -------------------------------------------------------- file-engine.ts
\* A file's text: the serialized documents, closed once the final bracket
\* is written; a torn text is an unclosed prefix.
JSONstringify(docs) == [body |-> docs, closed |-> TRUE]
CanParse(text) == text.closed
JSONparse(text) == text.body
FirstChunk(text) == [body |-> SubSeq(text.body, 1, Len(text.body) \div 2), closed |-> FALSE]
NoText == [body |-> <<>>, closed |-> FALSE]

\* Set<string> in insertion order.
SetAdd(s, x) == IF \E i \in DOMAIN s : s[i] = x THEN s ELSE Append(s, x)
SetDelete(s, x) == SelectSeq(s, LAMBDA y : y # x)

VARIABLES
  data,     \* FileEngine.data: collection name -> document list
  dirty,    \* FileEngine.dirty
  jobs,     \* FileEngine.writeQueue: the unfinished flush callbacks, in call order
  indexes,  \* Indexer.indexes: collection -> sequence of FieldIndex
  schemas,  \* JsonAdapter.schemas
  files,    \* the directory: collection name -> text of <name>.json
  phase,    \* "open": adapter connected; "closed": disconnected or crashed
  call,     \* the last adapter call that threw or was not a plain read, with its
            \* outcome; NoCall once a flush callback has run since
  input,    \* the arguments of a query-engine call: documents and FindOptions
  ret       \* what the last query-engine or Model call returned

vars == <<data, dirty, jobs, indexes, schemas, files, phase, call, input, ret>>

NoCall == [op |-> "none", status |-> "none"]
Called(op, status) == [op |-> op, status |-> status]

NoInput == [docs |-> <<>>, options |-> FilterOnly(NoFilter)]
NoRet == [op |-> "none", docs |-> <<>>, n |-> 0]
Returned(op, docs, n) == [op |-> op, docs |-> docs, n |-> n]

\* FileEngine.hasCollection
hasCollection(d, name) == name \in DOMAIN d

\* FileEngine.getCollection: a missing collection is created on the way.
getCollection(d, name) == IF name \notin DOMAIN d THEN MapSet(d, name, <<>>) ELSE d

\* FileEngine.createCollection
createCollection(d, dr, name) ==
  IF ~hasCollection(d, name)
    THEN [data |-> MapSet(d, name, <<>>), dirty |-> SetAdd(dr, name)]
    ELSE [data |-> d, dirty |-> dr]

\* FileEngine.markDirty(collection); the adapter calls it without an
\* argument, so the parameter is undefined.
markDirty(dr, collection) == SetAdd(dr, collection)

\* The argument JsonAdapter passes to engine.markDirty().
MarkDirtyArg(collection) == Undefined

\* FileEngine.flush, synchronous part: copy and clear the dirty set, chain a
\* callback onto writeQueue.
NewJob(dr) == [toWrite |-> dr, pc |-> "queued", buf |-> NoText, tmp |-> NoText]
flush(js, dr) == Append(js, NewJob(dr))

\* Variant: the callback is not chained on the previous promise.
Unchained(i) == TRUE

\* writeQueue.then(cb): cb runs once the promise it was chained on, i.e.
\* every earlier callback, has resolved.
Chained(i) == i = 1

\* Leading collections of toWrite that data no longer holds are skipped.
RECURSIVE SkipMissing(_, _)
SkipMissing(d, toWrite) ==
  IF toWrite = <<>> THEN <<>>
  ELSE IF Head(toWrite) \in DOMAIN d THEN toWrite
  ELSE SkipMissing(d, Tail(toWrite))

\* Variant: a plain write, straight into <name>.json.
WriteFileInPlace(fls, name, text) ==
  [files |-> MapSet(fls, name, FirstChunk(text)), tmp |-> FirstChunk(text)]

\* writeFileAtomic, first step: the text goes to a temporary file.
WriteFileBegin(fls, name, text) == [files |-> fls, tmp |-> FirstChunk(text)]

Init ==
  /\ data = EmptyMap
  /\ dirty = <<>>
  /\ jobs = <<>>
  /\ indexes = EmptyMap
  /\ schemas = EmptyMap
  /\ files = EmptyMap
  /\ phase = "open"
  /\ call = NoCall
  /\ input = NoInput
  /\ ret = NoRet

\* ---------------------------------------------------- the flush callbacks
\* for (const collection of toWrite): the next collection still in data is
\* serialized and its atomic write begins.
WriteBegin(i) ==
  /\ i \in DOMAIN jobs
  /\ Chained(i)
  /\ jobs[i].pc \in {"queued", "running"}
  /\ \E todo \in {SkipMissing(data, jobs[i].toWrite)} :
       /\ todo # <<>>
       /\ \E text \in {JSONstringify(data[Head(todo)])} :
            \E w \in {WriteFileBegin(files, Head(todo), text)} :
              /\ jobs' = [jobs EXCEPT ![i] = [toWrite |-> todo, pc |-> "writing", buf |-> text, tmp |-> w.tmp]]
              /\ files' = w.files
  /\ call' = NoCall
  /\ UNCHANGED <<data, dirty, indexes, schemas, phase>>

\* writeFileAtomic, second step: the rest of the text reaches the temporary file.
WriteRest(i) ==
  /\ i \in DOMAIN jobs
  /\ jobs[i].pc = "writing"
  /\ jobs' = [jobs EXCEPT ![i].pc = "written", ![i].tmp = jobs[i].buf]
  /\ call' = NoCall
  /\ UNCHANGED <<data, dirty, indexes, schemas, files, phase>>

\* writeFileAtomic, last step: rename the temporary file over <name>.json.
WriteRename(i) ==
  /\ i \in DOMAIN jobs
  /\ jobs[i].pc = "written"
  /\ files' = MapSet(files, Head(jobs[i].toWrite), jobs[i].tmp)
  /\ jobs' = [jobs EXCEPT ![i] = [toWrite |-> Tail(jobs[i].toWrite), pc |-> "running", buf |-> NoText, tmp |-> NoText]]
  /\ call' = NoCall
  /\ UNCHANGED <<data, dirty, indexes, schemas, phase>>

\* The callback returns: the flush promise resolves.
FlushResolve(i) ==
  /\ i \in DOMAIN jobs
  /\ Chained(i)
  /\ jobs[i].pc \in {"queued", "running"}
  /\ SkipMissing(data, jobs[i].toWrite) = <<>>
  /\ jobs' = SubSeq(jobs, 1, i - 1) \o SubSeq(jobs, i + 1, Len(jobs))
  /\ call' = NoCall
  /\ UNCHANGED <<data, dirty, indexes, schemas, files, phase>>

\* -------------------------------------------------------- json-adapter.ts
CollectionNotFound == "CollectionNotFoundError"
UniqueConstraint == "UniqueConstraintError"

\* docs.findIndex((d) => d.id === id); 0 stands for -1.
findIndex(docs, id) ==
  IF \E i \in DOMAIN docs : docs[i]["id"] = id
    THEN CHOOSE i \in DOMAIN docs : docs[i]["id"] = id /\ \A j \in 1..(i - 1) : docs[j]["id"] # id
    ELSE 0

\* Variant: { ...oldDoc, ...data }, the id not pinned.
MergePatchId(oldDoc, patch) ==
  [f \in DOMAIN oldDoc \cup DOMAIN patch |-> IF f \in DOMAIN patch THEN patch[f] ELSE oldDoc[f]]

\* Variant: { ...data, id: oldDoc.id }, the old fields dropped.
MergeReplace(oldDoc, patch) ==
  [f \in DOMAIN oldDoc \cup DOMAIN patch |->
     IF f = "id" THEN oldDoc["id"]
     ELSE IF f \in DOMAIN patch THEN patch[f] ELSE Null]

\* { ...oldDoc, ...data, id: oldDoc.id }
Merge(oldDoc, patch) ==
  [f \in DOMAIN oldDoc \cup DOMAIN patch |->
     IF f = "id" THEN oldDoc["id"]
     ELSE IF f \in DOMAIN patch THEN patch[f] ELSE oldDoc[f]]

\* docs.splice(index, 1)
Splice(docs, index) == SubSeq(docs, 1, index - 1) \o SubSeq(docs, index + 1, Len(docs))

IdsOf(docs) == {docs[i]["id"] : i \in DOMAIN docs}

\* The setupIndex loop of JsonAdapter.createCollection.
RECURSIVE SetupIndexes(_, _, _, _)
SetupIndexes(idxs, collection, schema, docs) ==
  IF schema = <<>> THEN idxs
  ELSE SetupIndexes(IF Head(schema).index \/ Head(schema).unique
                      THEN setupIndex(idxs, collection, Head(schema).field,
                                      Head(schema).unique, docs)
                      ELSE idxs,
                    collection, Tail(schema), docs)

\* The outcome of a call's synchronous part: the status returned or thrown,
\* the document list and indexes it leaves, and whether it went on to
\* markDirty() and flush().
Outcome(status, docs, idxs, flushes, n) ==
  [status |-> status, docs |-> docs, indexes |-> idxs, flushes |-> flushes, n |-> n]

\* JsonAdapter.insert on an existing collection
insert(docs, idxs, c, doc) ==
  LET r == onInsert(idxs, c, doc)
  IN IF r.err # "none" THEN Outcome(r.err, docs, r.indexes, FALSE, 0)
     ELSE Outcome("ok", Append(docs, doc), r.indexes, TRUE, 0)

\* JsonAdapter.update on an existing collection
update(docs, idxs, c, id, patch) ==
  LET index == findIndex(docs, id)
  IN IF index = 0 THEN Outcome("null", docs, idxs, FALSE, 0)
     ELSE LET oldDoc == docs[index]
              newDoc == Merge(oldDoc, patch)
              r == onUpdate(idxs, c, oldDoc, newDoc)
          IN IF r.err # "none" THEN Outcome(r.err, docs, r.indexes, FALSE, 0)
             ELSE Outcome("ok", [docs EXCEPT ![index] = newDoc], r.indexes, TRUE, 0)

\* JsonAdapter.delete on an existing collection
delete(docs, idxs, c, id) ==
  LET index == findIndex(docs, id)
  IN IF index = 0 THEN Outcome("false", docs, idxs, FALSE, 0)
     ELSE Outcome("true", Splice(docs, index), onDelete(idxs, c, docs[index]), TRUE, 0)

\* JsonAdapter.deleteMany on an existing collection
deleteMany(docs, idxs, c, query) ==
  LET matching == applyFindOptions(docs, FilterOnly(SomeFilter(query)))
      ids == IdsOf(matching)
      remaining == SelectSeq(docs, LAMBDA d : d["id"] \notin ids)
      deleted == Len(docs) - Len(remaining)
  IN Outcome("ok", remaining, DeleteAll(idxs, c, matching), deleted > 0, deleted)

\* JsonAdapter.findById / find / count on an existing collection
findById(docs, idxs, id) ==
  Outcome(IF findIndex(docs, id) = 0 THEN "null" ELSE "ok", docs, idxs, FALSE, 0)

find(docs, idxs, query) ==
  Outcome("ok", docs, idxs, FALSE, Len(applyFindOptions(docs, FilterOnly(SomeFilter(query)))))

count(docs, idxs, filter) ==
  Outcome("ok", docs, idxs, FALSE, countWithFilter(docs, filter))

\* The collection-scoped calls; args carries the call's arguments.
Ops == {"insert", "update", "delete", "deleteMany", "findById", "find", "count"}
ReadOps == {"findById", "find", "count"}

Dispatch(op, docs, idxs, c, args) ==
  CASE op = "insert" -> insert(docs, idxs, c, args.doc)
    [] op = "update" -> update(docs, idxs, c, args.id, args.patch)
    [] op = "delete" -> delete(docs, idxs, c, args.id)
    [] op = "deleteMany" -> deleteMany(docs, idxs, c, args.query)
    [] op = "findById" -> findById(docs, idxs, args.id)
    [] op = "find" -> find(docs, idxs, args.query)
    [] op = "count" -> count(docs, idxs, args.filter)

\* getCollectionOrThrow, then the call.  The result is the whole adapter
\* state the synchronous part of the call leaves behind.
AdapterState(status, d, idxs, dr, js, n) ==
  [status |-> status, data |-> d, indexes |-> idxs, dirty |-> dr, jobs |-> js, n |-> n]

\* Variant: the collection is fetched without the existence check.
getCollectionQuietly(d, collection) == [thrown |-> FALSE, data |-> getCollection(d, collection)]

\* JsonAdapter.getCollectionOrThrow
getCollectionOrThrow(d, collection) ==
  IF ~hasCollection(d, collection)
    THEN [thrown |-> TRUE, data |-> d]
    ELSE [thrown |-> FALSE, data |-> getCollection(d, collection)]

CallOn(d, idxs, dr, js, op, c, args) ==
  LET g == getCollectionOrThrow(d, c)
  IN IF g.thrown
       THEN AdapterState(CollectionNotFound, d, idxs, dr, js, 0)
       ELSE LET o == Dispatch(op, g.data[c], idxs, c, args)
            IN AdapterState(o.status, [g.data EXCEPT ![c] = o.docs], o.indexes,
                            IF o.flushes THEN <<>> ELSE dr,
                            IF o.flushes THEN flush(js, markDirty(dr, MarkDirtyArg(c))) ELSE js,
                            o.n)

AdapterCall(op, c, args) == CallOn(data, indexes, dirty, jobs, op, c, args)

Args(doc, id, patch, query, filter) ==
  [doc |-> doc, id |-> id, patch |-> patch, query |-> query, filter |-> filter]
InsertArgs(doc) == Args(doc, 0, EmptyMap, EmptyMap, NoFilter)
UpdateArgs(id, patch) == Args(EmptyMap, id, patch, EmptyMap, NoFilter)
IdArgs(id) == Args(EmptyMap, id, EmptyMap, EmptyMap, NoFilter)
QueryArgs(query) == Args(EmptyMap, 0, EmptyMap, query, SomeFilter(query))
CountArgs(filter) == Args(EmptyMap, 0, EmptyMap, EmptyMap, filter)

QueueRoom == Len(jobs) < MaxQueue

\* One collection-scoped adapter call, up to its await of flush().
Perform(op, c, args) ==
  /\ phase = "open"
  /\ \E r \in {AdapterCall(op, c, args)} :
        /\ Len(r.jobs) <= MaxQueue
        /\ data' = r.data
        /\ indexes' = r.indexes
        /\ dirty' = r.dirty
        /\ jobs' = r.jobs
        /\ call' = IF op \in ReadOps /\ r.status # CollectionNotFound THEN call ELSE Called(op, r.status)
  /\ UNCHANGED <<schemas, files, phase>>

Insert(c, doc) == Perform("insert", c, InsertArgs(doc))
Update(c, id, patch) == Perform("update", c, UpdateArgs(id, patch))
Delete(c, id) == Perform("delete", c, IdArgs(id))
DeleteMany(c, query) == Perform("deleteMany", c, QueryArgs(query))
FindById(c, id) == Perform("findById", c, IdArgs(id))
Find(c, query) == Perform("find", c, QueryArgs(query))
Count(c, filter) == Perform("count", c, CountArgs(filter))

\* JsonAdapter.createCollection(c, schema)
CreateCollectionWith(c, schema) ==
  /\ phase = "open"
  /\ QueueRoom
  /\ \E e \in {createCollection(data, dirty, c)} :
        /\ data' = e.data
        /\ schemas' = MapSet(schemas, c, schema)
        /\ indexes' = SetupIndexes(indexes, c, schema, e.data[c])
        /\ jobs' = flush(jobs, e.dirty)
        /\ dirty' = <<>>
  /\ call' = Called("createCollection", "ok")
  /\ UNCHANGED <<files, phase>>

CreateCollection(c) == CreateCollectionWith(c, UserSchema)

DropCollection(c) ==
  /\ phase = "open"
  /\ QueueRoom
  /\ data' = MapDelete(data, c)
  /\ files' = MapDelete(files, c)
  /\ indexes' = MapDelete(indexes, c)
  /\ schemas' = MapDelete(schemas, c)
  /\ jobs' = flush(jobs, SetDelete(dirty, c))
  /\ dirty' = <<>>
  /\ call' = Called("dropCollection", "ok")
  /\ UNCHANGED phase

\* JsonAdapter.disconnect -> FileEngine.flushIfDirty
Disconnect ==
  /\ phase = "open"
  /\ IF Len(dirty) > 0
       THEN /\ QueueRoom
            /\ jobs' = flush(jobs, dirty)
            /\ dirty' = <<>>
       ELSE UNCHANGED <<jobs, dirty>>
  /\ phase' = "closed"
  /\ call' = Called("disconnect", "ok")
  /\ UNCHANGED <<data, indexes, schemas, files>>

\* FileEngine.load: every <name>.json is parsed into data.  No legacy
\* seedorm.json exists: no collection of the model is named "seedorm".
load(fls) == [name \in {n \in DOMAIN fls : CanParse(fls[n])} |-> JSONparse(fls[name])]

\* new JsonAdapter(path) followed by connect(), once the previous instance
\* has disconnected and its calls have resolved.
Connect ==
  /\ phase = "closed"
  /\ jobs = <<>>
  /\ data' = load(files)
  /\ dirty' = <<>>
  /\ indexes' = EmptyMap
  /\ schemas' = EmptyMap
  /\ phase' = "open"
  /\ call' = Called("connect", IF \A n \in DOMAIN files : CanParse(files[n]) THEN "ok" ELSE "SyntaxError")
  /\ UNCHANGED <<jobs, files>>

\* The process dies: memory and pending callbacks are lost, files stay.
Crash ==
  /\ phase = "open" \/ jobs # <<>>
  /\ data' = EmptyMap
  /\ dirty' = <<>>
  /\ jobs' = <<>>
  /\ indexes' = EmptyMap
  /\ schemas' = EmptyMap
  /\ phase' = "closed"
  /\ call' = Called("crash", IF \E i \in DOMAIN jobs : jobs[i].pc \in {"writing", "written"}
                               THEN "midwrite" ELSE "idle")
  /\ UNCHANGED files

\* Callers that create documents (Model.create, MigrationEngine.up) pass an
\* id no document of the collection carries.
FreshId(c, doc) == hasCollection(data, c) => doc["id"] \notin IdsOf(data[c])

InsertStep(docs, anyId) ==
  \E c \in Colls, doc \in docs :
    /\ anyId \/ FreshId(c, doc)
    /\ hasCollection(data, c) => Len(data[c]) < MaxDocs
    /\ Insert(c, doc)

CrudOn(patches, schema) ==
  \/ \E c \in Colls : CreateCollectionWith(c, schema)
  \/ \E c \in Colls : DropCollection(c)
  \/ \E c \in Colls, id \in Ids, patch \in patches : Update(c, id, patch)
  \/ \E c \in Colls, id \in Ids : Delete(c, id)
  \/ \E c \in Colls, query \in Queries : DeleteMany(c, query)
  \/ \E c \in Colls, id \in Ids : FindById(c, id)
  \/ \E c \in Colls, query \in ReadQueries : Find(c, query)
  \/ \E c \in Colls, filter \in {NoFilter} \cup {SomeFilter(q) : q \in ReadQueries} : Count(c, filter)

CrudStep(patches) == CrudOn(patches, UserSchema)

QueueStep ==
  \/ \E i \in 1..MaxQueue : WriteBegin(i)
  \/ \E i \in 1..MaxQueue : WriteRest(i)
  \/ \E i \in 1..MaxQueue : WriteRename(i)
  \/ \E i \in 1..MaxQueue : FlushResolve(i)

LifeStep == Disconnect \/ Connect \/ Crash

\* Adapter instances over one directory, one after the other, called with
\* fresh ids.
Next ==
  /\ InsertStep(Docs, FALSE) \/ CrudStep(Patches) \/ QueueStep \/ LifeStep
  /\ UNCHANGED <<input, ret>>

Spec == Init /\ [][Next]_vars

\* One adapter instance from connect on.
SessionNext ==
  /\ InsertStep(Docs, FALSE) \/ CrudStep(Patches) \/ QueueStep
  /\ UNCHANGED <<input, ret>>

Session == Init /\ [][SessionNext]_vars

\* One adapter instance called directly, an inserted document carrying any
\* id; the documents and patches leave the age field alone.
RawDocs == {d \in Docs : d["age"] = Null}
RawPatches == {p \in Patches : "age" \notin DOMAIN p}

NextAnyId ==
  /\ InsertStep(RawDocs, TRUE) \/ CrudStep(RawPatches) \/ QueueStep
  /\ UNCHANGED <<input, ret>>

SpecAnyId == Init /\ [][NextAnyId]_vars

\* Variant: after a failed write the queue goes on with the next callback.
Recovered(js, i) == SubSeq(js, 1, i - 1) \o SubSeq(js, i + 1, Len(js))

\* The callback throws: writeQueue is now a rejected promise, which the
\* callback's entry stands for from here on.
Rejected(js, i) ==
  [js EXCEPT ![i] = [toWrite |-> js[i].toWrite, pc |-> "rejected", buf |-> NoText, tmp |-> NoText]]

\* writeFileAtomic rejects with an I/O error while a callback awaits it.
WriteFail(i) ==
  /\ i \in DOMAIN jobs
  /\ jobs[i].pc \in {"writing", "written"}
  /\ jobs' = Rejected(jobs, i)
  /\ call' = Called("writeFileAtomic", "rejected")
  /\ UNCHANGED <<data, dirty, indexes, schemas, files, phase>>

\* writeQueue.then(cb) on a rejected promise: cb is not run and the promise
\* flush() returned rejects.
FlushReject(i) ==
  /\ i \in DOMAIN jobs
  /\ i > 1
  /\ jobs[1].pc = "rejected"
  /\ jobs[i].pc = "queued"
  /\ jobs' = SubSeq(jobs, 1, i - 1) \o SubSeq(jobs, i + 1, Len(jobs))
  /\ call' = Called("flush", "rejected")
  /\ UNCHANGED <<data, dirty, indexes, schemas, files, phase>>

FaultStep ==
  \/ \E i \in 1..MaxQueue : WriteFail(i)
  \/ \E i \in 1..MaxQueue : FlushReject(i)

\* One adapter instance whose writes may fail.
FaultyNext ==
  /\ InsertStep(RawDocs, FALSE) \/ CrudStep(RawPatches) \/ QueueStep \/ FaultStep
  /\ UNCHANGED <<input, ret>>

Faulty == Init /\ [][FaultyNext]_vars

\* One adapter instance whose collection declares IndexFirstSchema; the
\* patches leave the id alone.
IdKeptPatches == {p \in Patches : "id" \notin DOMAIN p}

IndexFirstNext ==
  /\ InsertStep(Docs, FALSE) \/ CrudOn(IdKeptPatches, IndexFirstSchema) \/ QueueStep
  /\ UNCHANGED <<input, ret>>

SessionIndexFirst == Init /\ [][IndexFirstNext]_vars

\* ------------------------------------------------- schema.ts and model.ts
ValidationError == "ValidationError"

\* data[field] of a plain object: undefined when the key is absent.
Get(rec, f) == IF f \in DOMAIN rec THEN rec[f] ELSE Missing

\* An optional property of a definition: <<>> when it is undefined, <<v>>
\* when it is given.
NoValue == <<>>
Given(v) == <<v>>
\* opt ?? fallback
Coalesce(opt, fallback) == IF opt = NoValue THEN fallback ELSE opt[1]

StringType == "string"
NumberType == "number"
JsonType == "json"

\* The optional constraints of a field definition.
NoOptions ==
  [default |-> NoValue, minLength |-> NoValue, maxLength |-> NoValue,
   min |-> NoValue, max |-> NoValue, enum |-> NoValue]

NormalizedField(field, type, required, unique, index, options) ==
  [field |-> field, type |-> type, required |-> required, unique |-> unique,
   index |-> index, options |-> options]

\* The two forms of a schema entry: the shorthand type name and the full
\* FieldDefinition, whose flags are optional.
Shorthand(type) ==
  [shorthand |-> TRUE, type |-> type, required |-> NoValue, unique |-> NoValue,
   index |-> NoValue, options |-> NoOptions]
FieldDefinition(type, required, unique, index, options) ==
  [shorthand |-> FALSE, type |-> type, required |-> required, unique |-> unique,
   index |-> index, options |-> options]

\* normalizeSchema, one entry: index falls back to unique only when index is
\* undefined.
normalizeField(field, def) ==
  IF def.shorthand
    THEN NormalizedField(field, def.type, FALSE, FALSE, FALSE, NoOptions)
  ELSE NormalizedField(field, def.type, Coalesce(def.required, FALSE),
                       Coalesce(def.unique, FALSE),
                       Coalesce(def.index, Coalesce(def.unique, FALSE)),
                       def.options)

\* normalizeSchema: the entries of the schema object in their order.
normalizeSchema(schema) ==
  [i \in DOMAIN schema |-> normalizeField(schema[i].field, schema[i].def)]

\* A field of the models below: the values of their documents stand for
\* values of the declared type, so the type check accepts all of them.
FieldDef(field, required, unique, index) ==
  NormalizedField(field, JsonType, required, unique, index, NoOptions)

\* Values of the validated documents: null, undefined, the numbers
\* 1 .. MaxNumber and strings, of which only the length matters.
Str(len) == MaxNumber + 1 + len
typeOf(value) ==
  IF value = Missing THEN "undefined"
  ELSE IF value = Null THEN "object"
  ELSE IF value <= MaxNumber THEN NumberType
  ELSE StringType
length(value) == value - MaxNumber - 1

\* validateFieldType(value, type) !== null
validateFieldType(value, type) ==
  IF IsAbsent(value) THEN FALSE
  ELSE IF type = StringType THEN typeOf(value) # StringType
  ELSE IF type = NumberType THEN typeOf(value) # NumberType
  ELSE IF type = JsonType THEN FALSE
  ELSE TRUE

coerceFieldValue(value, type) == value

\* The value validated for a field: the default stands in for an unset
\* field on create only.
WithDefault(given, def, isUpdate) ==
  IF given = Missing /\ def.options.default # NoValue /\ ~isUpdate
    THEN def.options.default[1]
  ELSE given

\* The required check, skipped in update mode.
RequiredAlways(value, def, isUpdate) == def.required /\ IsAbsent(value)
RequiredFails(value, def, isUpdate) ==
  ~isUpdate /\ def.required /\ IsAbsent(value)

\* String length, number range and enum constraints.
StringFails(value, def) ==
  /\ def.type = StringType /\ typeOf(value) = StringType
  /\ \/ def.options.minLength # NoValue /\ length(value) < def.options.minLength[1]
     \/ def.options.maxLength # NoValue /\ length(value) > def.options.maxLength[1]
NumberFails(value, def) ==
  /\ def.type = NumberType /\ typeOf(value) = NumberType
  /\ \/ def.options.min # NoValue /\ value < def.options.min[1]
     \/ def.options.max # NoValue /\ value > def.options.max[1]
EnumFails(value, def) ==
  /\ def.options.enum # NoValue
  /\ \A i \in DOMAIN def.options.enum[1] : def.options.enum[1][i] # value

\* The checks of a field that carries a value (null included).
FieldFails(value, def) ==
  \/ validateFieldType(value, def.type)
  \/ StringFails(value, def)
  \/ NumberFails(value, def)
  \/ EnumFails(value, def)

Valid(result) == [err |-> "none", field |-> "", doc |-> result]
Invalid(field, result) == [err |-> ValidationError, field |-> field, doc |-> result]

\* validateDocument, the loop over the schema's fields.
RECURSIVE ValidateFields(_, _, _, _)
ValidateField(data_, schema, isUpdate, result, def, value) ==
  IF RequiredFails(value, def, isUpdate) THEN Invalid(def.field, result)
  ELSE IF value = Missing THEN ValidateFields(data_, Tail(schema), isUpdate, result)
  ELSE IF FieldFails(value, def) THEN Invalid(def.field, result)
  ELSE ValidateFields(data_, Tail(schema), isUpdate,
                      MapSet(result, def.field, coerceFieldValue(value, def.type)))
ValidateFields(data_, schema, isUpdate, result) ==
  IF schema = <<>> THEN Valid(result)
  ELSE ValidateField(data_, schema, isUpdate, result, Head(schema),
                     WithDefault(Get(data_, Head(schema).field), Head(schema), isUpdate))

SchemaFields(schema) == {schema[i].field : i \in DOMAIN schema}

\* In update mode the keys outside the schema pass through unless undefined.
PassThrough(data_, schema, r, extra) ==
  Valid([k \in DOMAIN r.doc \cup extra |-> IF k \in extra THEN data_[k] ELSE r.doc[k]])
Validated(data_, schema, isUpdate, r) ==
  IF r.err # "none" \/ ~isUpdate THEN r
  ELSE PassThrough(data_, schema, r,
         {k \in DOMAIN data_ : k \notin SchemaFields(schema) /\ data_[k] # Missing})
validateDocument(data_, schema, isUpdate) ==
  Validated(data_, schema, isUpdate, ValidateFields(data_, schema, isUpdate, EmptyMap))

\* Model.create: validate, add a generated id, adapter.insert.  The
\* timestamps are left out of the documents.
InsertValid(model, d, idxs, dr, js, id, v) ==
  IF v.err # "none" THEN AdapterState(v.err, d, idxs, dr, js, 0)
  ELSE CallOn(d, idxs, dr, js, "insert", model.collection, InsertArgs(MapSet(v.doc, "id", id)))
ModelCreate(model, d, idxs, dr, js, item, id) ==
  InsertValid(model, d, idxs, dr, js, id, validateDocument(item, model.schema, FALSE))

\* ---------------------------------------------------- model.ts, relations
\* The models of the relation tests: posts carry tags through a join
\* collection.
Posts == "posts"
Tags == "tags"
PostTags == "post_tags"
ManyToMany == "manyToMany"

NoRelations == EmptyMap
TagsRelation ==
  [type |-> ManyToMany, model |-> "Tag", joinCollection |-> PostTags,
   foreignKey |-> "postId", relatedKey |-> "tagId"]

PostModel ==
  [name |-> "Post", collection |-> Posts,
   schema |-> <<FieldDef("title", TRUE, FALSE, FALSE)>>,
   relations |-> [tags |-> TagsRelation]]
TagModel ==
  [name |-> "Tag", collection |-> Tags,
   schema |-> <<FieldDef("label", TRUE, FALSE, FALSE)>>,
   relations |-> NoRelations]

\* The registry: db.model(definition) has been called for both models.
Models == {PostModel, TagModel}
hasModel(name) == \E m \in Models : m.name = name
getModel(name) == CHOOSE m \in Models : m.name = name

\* What a Model call throws; NoError when it returns.
NoError == [kind |-> "none", relation |-> "", model |-> ""]
SeedORMError(relation, model) == [kind |-> "SeedORMError", relation |-> relation, model |-> model]
Thrown(kind) == [kind |-> kind, relation |-> "", model |-> ""]

\* Model.resolveRelation
resolveRelation(model, relationName) ==
  IF relationName \notin DOMAIN model.relations
    THEN [err |-> SeedORMError(relationName, model.name)]
  ELSE IF ~hasModel(model.relations[relationName].model)
    THEN [err |-> SeedORMError("", model.relations[relationName].model)]
  ELSE [err |-> NoError, rel |-> model.relations[relationName],
        relatedModel |-> getModel(model.relations[relationName].model)]

\* JsonAdapter.find
adapterFind(d, collection, options) ==
  LET g == getCollectionOrThrow(d, collection)
  IN IF g.thrown THEN [thrown |-> TRUE, docs |-> <<>>]
     ELSE [thrown |-> FALSE, docs |-> applyFindOptions(g.data[collection], options)]

\* { [field]: { $in: values } }
InFilter(field, values) ==
  FilterOnly(SomeFilter([f \in {field} |-> OpCond([o \in {"$in"} |-> values])]))

\* [...new Set(values)]
RECURSIVE Distinct(_)
Distinct(values) ==
  IF values = <<>> THEN <<>>
  ELSE SetAdd(Distinct(SubSeq(values, 1, Len(values) - 1)), values[Len(values)])

\* The documents a read holds: objs.shared tells whether they are the very
\* objects of the adapter's arrays, so that an assignment to one of their
\* fields shows in the store.
Objects(docs, shared) == [docs |-> docs, shared |-> shared]

\* Variant: the documents are handed on uncopied.
NoClone(objs) == objs

\* docs.map((d) => ({ ...d }))
ShallowClone(objs) == Objects(objs.docs, FALSE)

\* Variant: only the first join row of a parent is followed.
FirstRowOf(joinRows, rel, parentId) ==
  LET rows == SelectSeq(joinRows, LAMBDA row : row[rel.foreignKey] = parentId)
  IN IF rows = <<>> THEN <<>> ELSE <<Head(rows)>>

\* The join rows whose related documents are pushed onto a parent's group.
RowsOf(joinRows, rel, parentId) ==
  SelectSeq(joinRows, LAMBDA row : row[rel.foreignKey] = parentId)

\* relatedMap.get(relatedId): the last document of relatedDocs with that id.
RelatedDoc(relatedDocs, relatedId) ==
  LET at == {i \in DOMAIN relatedDocs : relatedDocs[i]["id"] = relatedId}
  IN IF at = {} THEN <<>>
     ELSE <<relatedDocs[CHOOSE i \in at : \A j \in at : j <= i]>>

\* grouped.get(doc.id) ?? []
RECURSIVE Grouped(_, _, _)
Grouped(rows, rel, relatedDocs) ==
  IF rows = <<>> THEN <<>>
  ELSE RelatedDoc(relatedDocs, Head(rows)[rel.relatedKey]) \o Grouped(Tail(rows), rel, relatedDocs)

\* doc[relationName] = values[i] for the i-th document held; the store sees
\* the assignment when the documents are its own objects.
Attach(d, collection, objs, relationName, values) ==
  LET attached == [i \in DOMAIN objs.docs |-> MapSet(objs.docs[i], relationName, values[i])]
      held(doc) == {i \in DOMAIN objs.docs : objs.docs[i]["id"] = doc["id"]}
  IN [err |-> NoError,
      objs |-> Objects(attached, objs.shared),
      data |-> IF objs.shared
                 THEN [d EXCEPT ![collection] =
                         [k \in DOMAIN d[collection] |->
                            IF held(d[collection][k]) # {}
                              THEN attached[CHOOSE i \in held(d[collection][k]) : TRUE]
                              ELSE d[collection][k]]]
                 ELSE d]

\* Model.populate, case RelationType.ManyToMany
PopulateManyToMany(d, model, objs, relationName, rel, relatedModel) ==
  LET parentIds == [i \in DOMAIN objs.docs |-> objs.docs[i]["id"]]
      joinRows == adapterFind(d, rel.joinCollection, InFilter(rel.foreignKey, parentIds))
      relatedIds == Distinct([i \in DOMAIN joinRows.docs |-> joinRows.docs[i][rel.relatedKey]])
      relatedDocs == IF Len(relatedIds) > 0
                       THEN adapterFind(d, relatedModel.collection, InFilter("id", relatedIds))
                       ELSE [thrown |-> FALSE, docs |-> <<>>]
      group(parentId) == Grouped(RowsOf(joinRows.docs, rel, parentId), rel, relatedDocs.docs)
  IN IF joinRows.thrown \/ relatedDocs.thrown
       THEN [err |-> Thrown(CollectionNotFound), objs |-> objs, data |-> d]
       ELSE Attach(d, model.collection, objs, relationName,
                   [i \in DOMAIN objs.docs |-> group(objs.docs[i]["id"])])

\* Model.populate, the loop over includeList.  The models declare
\* manyToMany relations only.
RECURSIVE PopulateLoop(_, _, _, _)
PopulateNext(model, a, includeList) ==
  IF a.err # NoError THEN a
  ELSE PopulateLoop(a.data, model, a.objs, Tail(includeList))
PopulateResolved(d, model, objs, includeList, r) ==
  IF r.err # NoError THEN [err |-> r.err, objs |-> objs, data |-> d]
  ELSE PopulateNext(model,
                    PopulateManyToMany(d, model, objs, Head(includeList), r.rel, r.relatedModel),
                    includeList)
PopulateLoop(d, model, objs, includeList) ==
  IF includeList = <<>> THEN [err |-> NoError, objs |-> objs, data |-> d]
  ELSE PopulateResolved(d, model, objs, includeList, resolveRelation(model, Head(includeList)))

\* Model.populate
populate(d, model, objs, includeList) ==
  IF Len(includeList) = 0 \/ Len(objs.docs) = 0
    THEN [err |-> NoError, objs |-> objs, data |-> d]
    ELSE PopulateLoop(d, model, ShallowClone(objs), includeList)

\* What a read returns: the error thrown, the documents (<<>> for null) and
\* the store it leaves.
ReadResult(err, docs, d) == [err |-> err, docs |-> docs, data |-> d]

\* Model.find
ModelFind(d, model, options, include) ==
  LET docs == adapterFind(d, model.collection, options)
  IN IF docs.thrown THEN ReadResult(Thrown(CollectionNotFound), <<>>, d)
     ELSE IF Len(include) = 0 THEN ReadResult(NoError, docs.docs, d)
     ELSE LET p == populate(d, model, Objects(docs.docs, TRUE), include)
          IN ReadResult(p.err, IF p.err = NoError THEN p.objs.docs ELSE <<>>, p.data)

\* The tail Model.findById and Model.findOne share: doc is <<>> for null.
PopulateOne(d, model, doc, include) ==
  IF doc = <<>> \/ Len(include) = 0 THEN ReadResult(NoError, doc, d)
  ELSE LET p == populate(d, model, Objects(doc, TRUE), include)
       IN ReadResult(p.err, IF p.err = NoError THEN p.objs.docs ELSE <<>>, p.data)

\* Model.findById
ModelFindById(d, model, id, include) ==
  LET g == getCollectionOrThrow(d, model.collection)
      index == findIndex(g.data[model.collection], id)
  IN IF g.thrown THEN ReadResult(Thrown(CollectionNotFound), <<>>, d)
     ELSE PopulateOne(d, model, IF index = 0 THEN <<>> ELSE <<g.data[model.collection][index]>>, include)

\* Model.findOne
ModelFindOne(d, model, filter, include) ==
  LET results == adapterFind(d, model.collection, FindOptions(SomeFilter(filter), <<>>, 0, 1))
  IN IF results.thrown THEN ReadResult(Thrown(CollectionNotFound), <<>>, d)
     ELSE PopulateOne(d, model, IF results.docs = <<>> THEN <<>> ELSE <<results.docs[1]>>, include)

\* Model.associate: the join row carries a generated id.
JoinDoc(rel, rowId, id, relatedId) ==
  [f \in {"id", rel.foreignKey, rel.relatedKey} |->
     IF f = "id" THEN rowId ELSE IF f = rel.foreignKey THEN id ELSE relatedId]

\* Model.dissociate: the filter handed to adapter.deleteMany.
JoinFilter(rel, id, relatedId) ==
  [f \in {rel.foreignKey, rel.relatedKey} |->
     BareCond(IF f = rel.foreignKey THEN id ELSE relatedId)]

\* ------------------------------------------- the models over one adapter
RelColls == {Posts, Tags, PostTags}
RelIds == 1..MaxRel
RelationNames == {"tags", "bogus"}
Includes == {<<>>, <<"tags">>, <<"bogus">>, <<"tags", "bogus">>}
OneInclude == {<<"tags">>, <<"bogus">>}
ModelReads == {"find", "findOne", "findById"}

\* Model.init passes the model's schema; the tests create the join
\* collection with an empty one.
SchemaOf(c) == IF c = Posts THEN PostModel.schema ELSE IF c = Tags THEN TagModel.schema ELSE <<>>

\* What the last Model call was given and gave back.
ModelReturned(op, model, id, relatedId, include, docs, err, n) ==
  [op |-> op, model |-> model, id |-> id, relatedId |-> relatedId,
   include |-> include, docs |-> docs, err |-> err, n |-> n]

\* generateId: an id no document of the collection carries.
generateId(d, c, max) ==
  IF hasCollection(d, c) /\ \E i \in 1..max : i \notin IdsOf(d[c])
    THEN CHOOSE i \in 1..max : i \notin IdsOf(d[c]) /\ \A j \in 1..(i - 1) : j \in IdsOf(d[c])
    ELSE max

HasRoom(c, max) == hasCollection(data, c) => Len(data[c]) < max

ErrorOf(status) == IF status \in {CollectionNotFound, UniqueConstraint, ValidationError} THEN Thrown(status) ELSE NoError

\* The caller has awaited its earlier calls: no flush is pending.
Awaited == jobs = <<>>

\* The adapter state a mutating Model call leaves, up to its await of flush().
Commit(op, r) ==
  /\ phase = "open"
  /\ Len(r.jobs) <= MaxQueue
  /\ data' = r.data
  /\ indexes' = r.indexes
  /\ dirty' = r.dirty
  /\ jobs' = r.jobs
  /\ call' = Called(op, r.status)
  /\ UNCHANGED <<schemas, files, phase, input>>

RelInit(c) ==
  /\ ~hasCollection(data, c)
  /\ Awaited
  /\ CreateCollectionWith(c, SchemaOf(c))
  /\ UNCHANGED <<input, ret>>

RelCreate(model) ==
  /\ HasRoom(model.collection, MaxRel)
  /\ \E item \in {[f \in SchemaFields(model.schema) |-> 1]} :
     \E id \in {generateId(data, model.collection, MaxRel)} :
     \E r \in {ModelCreate(model, data, indexes, dirty, jobs, item, id)} :
        /\ Commit("create", r)
        /\ ret' = ModelReturned("create", model.name, id, 0, <<>>, <<>>, ErrorOf(r.status), 0)

\* Model.associate
Associate(model, id, relationName, relatedId) ==
  \E rr \in {resolveRelation(model, relationName)} :
    IF rr.err # NoError
      THEN /\ phase = "open"
           /\ ret' = ModelReturned("associate", model.name, id, relatedId, <<relationName>>, <<>>, rr.err, 0)
           /\ UNCHANGED <<data, dirty, jobs, indexes, schemas, files, phase, call, input>>
      ELSE /\ Awaited
           /\ HasRoom(rr.rel.joinCollection, MaxJoin)
           /\ \E rowId \in {generateId(data, rr.rel.joinCollection, MaxJoin)} :
              \E r \in {CallOn(data, indexes, dirty, jobs, "insert", rr.rel.joinCollection,
                               InsertArgs(JoinDoc(rr.rel, rowId, id, relatedId)))} :
                 /\ Commit("associate", r)
                 /\ ret' = ModelReturned("associate", model.name, id, relatedId, <<relationName>>, <<>>, ErrorOf(r.status), 0)

\* Model.dissociate
Dissociate(model, id, relationName, relatedId) ==
  \E rr \in {resolveRelation(model, relationName)} :
    IF rr.err # NoError
      THEN /\ phase = "open"
           /\ ret' = ModelReturned("dissociate", model.name, id, relatedId, <<relationName>>, <<>>, rr.err, 0)
           /\ UNCHANGED <<data, dirty, jobs, indexes, schemas, files, phase, call, input>>
      ELSE \E r \in {CallOn(data, indexes, dirty, jobs, "deleteMany", rr.rel.joinCollection,
                            QueryArgs(JoinFilter(rr.rel, id, relatedId)))} :
              /\ Awaited
              /\ Commit("dissociate", r)
              /\ ret' = ModelReturned("dissociate", model.name, id, relatedId, <<relationName>>, <<>>, ErrorOf(r.status), r.n)

\* A read of a model, issued once the earlier calls have been awaited.  Its
\* awaits of adapter.find resolve without I/O; the read is taken as one step.
Read(op, model, id, include, r) ==
  /\ phase = "open"
  /\ Awaited
  /\ data' = r.data
  /\ ret' = ModelReturned(op, model.name, id, 0, include, r.docs, r.err, Len(r.docs))
  /\ UNCHANGED <<dirty, jobs, indexes, schemas, files, phase, call, input>>

RelFind(model, include) ==
  Read("find", model, 0, include, ModelFind(data, model, FilterOnly(NoFilter), include))
RelFindById(model, id, include) ==
  Read("findById", model, id, include, ModelFindById(data, model, id, include))
RelFindOne(model, id, include) ==
  Read("findOne", model, id, include, ModelFindOne(data, model, [f \in {"id"} |-> BareCond(id)], include))

RelQueueStep == QueueStep /\ UNCHANGED <<input, ret>>

RelationsNext ==
  \/ \E c \in RelColls : RelInit(c)
  \/ \E model \in Models : RelCreate(model)
  \/ \E id \in RelIds, name \in RelationNames, relatedId \in RelIds : Associate(PostModel, id, name, relatedId)
  \/ \E id \in RelIds, name \in RelationNames, relatedId \in RelIds : Dissociate(PostModel, id, name, relatedId)
  \/ \E include \in Includes : RelFind(PostModel, include)
  \/ \E id \in RelIds, include \in OneInclude : RelFindById(PostModel, id, include)
  \/ \E id \in RelIds, include \in OneInclude : RelFindOne(PostModel, id, include)
  \/ RelQueueStep

Relations == Init /\ [][RelationsNext]_vars

\* --------------------------------------------------- Model.createMany
\* A model over the users collection: email is required and unique.
UserModel ==
  [name |-> "User", collection |-> Users,
   schema |-> <<FieldDef("email", TRUE, TRUE, TRUE)>>,
   relations |-> NoRelations]

\* The items of a createMany call: an email each, null included.
Items == [{"email"} -> EmailVals]
ItemLists == UNION {[1..n -> Items] : n \in 1..MaxItems}

\* Where a createMany call stands: k is the item its loop is at, results the
\* ids of the documents created so far.
Batch(items, k, results, state, err) ==
  [op |-> "createMany", items |-> items, k |-> k, results |-> results, state |-> state, err |-> err]

BatchInit ==
  /\ ~hasCollection(data, Users)
  /\ CreateCollectionWith(Users, UserModel.schema)
  /\ UNCHANGED <<input, ret>>

\* Model.createMany is called on the initialised model.
CreateManyStart(items) ==
  /\ phase = "open"
  /\ hasCollection(data, Users)
  /\ ret = NoRet
  /\ ret' = Batch(items, 1, <<>>, "running", NoError)
  /\ UNCHANGED <<data, dirty, jobs, indexes, schemas, files, phase, call, input>>

\* results.push(await this.create(item)): the loop goes on once the flush of
\* the previous create has resolved; a throw ends the call.
CreateManyStep ==
  /\ ret.op = "createMany" /\ ret.state = "running"
  /\ ret.k <= Len(ret.items)
  /\ Awaited
  /\ \E id \in {generateId(data, Users, MaxItems)} :
     \E r \in {ModelCreate(UserModel, data, indexes, dirty, jobs, ret.items[ret.k], id)} :
        /\ Commit("create", r)
        /\ ret' = IF ErrorOf(r.status) # NoError
                    THEN [ret EXCEPT !.state = "failed", !.err = ErrorOf(r.status)]
                    ELSE [ret EXCEPT !.k = @ + 1, !.results = Append(@, id)]

\* return results
CreateManyReturn ==
  /\ ret.op = "createMany" /\ ret.state = "running"
  /\ ret.k > Len(ret.items)
  /\ Awaited
  /\ ret' = [ret EXCEPT !.state = "done"]
  /\ UNCHANGED <<data, dirty, jobs, indexes, schemas, files, phase, call, input>>

CreateManyNext ==
  \/ BatchInit
  \/ \E items \in ItemLists : CreateManyStart(items)
  \/ CreateManyStep
  \/ CreateManyReturn
  \/ RelQueueStep

CreateMany == Init /\ [][CreateManyNext]_vars

\* ------------------------------- specification: Model.create, Model.update
\* Model.update: validate in update mode, adapter.update.  The timestamp is
\* left out of the documents.
UpdateValid(model, d, idxs, dr, js, id, v) ==
  IF v.err # "none" THEN AdapterState(v.err, d, idxs, dr, js, 0)
  ELSE CallOn(d, idxs, dr, js, "update", model.collection, UpdateArgs(id, v.doc))
ModelUpdate(model, d, idxs, dr, js, id, data_) ==
  UpdateValid(model, d, idxs, dr, js, id, validateDocument(data_, model.schema, TRUE))

\* The objects handed to create and update: the email absent, null or set.
UserInputs == {EmptyMap} \cup Items

UserCreate(item) ==
  /\ HasRoom(Users, MaxDocs)
  /\ \E id \in {generateId(data, Users, MaxDocs)} :
     \E r \in {ModelCreate(UserModel, data, indexes, dirty, jobs, item, id)} :
        /\ Commit("create", r)
        /\ ret' = ModelReturned("create", UserModel.name, id, 0, <<>>, <<>>, ErrorOf(r.status), 0)

UserUpdate(id, data_) ==
  \E r \in {ModelUpdate(UserModel, data, indexes, dirty, jobs, id, data_)} :
    /\ Commit("update", r)
    /\ ret' = ModelReturned("update", UserModel.name, id, 0, <<>>, <<>>, ErrorOf(r.status), 0)

ModelCallsNext ==
  \/ BatchInit
  \/ \E item \in UserInputs : UserCreate(item)
  \/ \E id \in 1..MaxDocs, data_ \in UserInputs : UserUpdate(id, data_)
  \/ RelQueueStep

ModelCalls == Init /\ [][ModelCallsNext]_vars

\* ------------------------------------------------- the query engine alone
\* Document lists as the filter tests build them: the id is the position in
\* the list, email may be missing or null, age is a number.
QueryVals(f) == IF f = "email" THEN {Missing, Null} \cup (1..MaxEmail) ELSE 1..2
QueryRows == {r \in [{"email", "age"} -> Missing..MaxEmail] : \A f \in DOMAIN r : r[f] \in QueryVals(f)}
WithId(rows) == [i \in DOMAIN rows |-> [f \in Fields |-> IF f = "id" THEN i ELSE rows[i][f]]]
QueryDocs == UNION {{WithId(rows) : rows \in [1..n -> QueryRows]} : n \in 0..MaxLen}

QueryFilters == {NoFilter, SomeFilter([f \in {"email"} |-> OpCond([o \in {"$gte"} |-> 1])])}
QuerySorts ==
  {<<>>, <<SortKey("age", 1)>>, <<SortKey("email", 0 - 1)>>,
   <<SortKey("email", 1), SortKey("age", 1)>>, <<SortKey("age", 0 - 1), SortKey("email", 1)>>}
QueryOptions ==
  {FindOptions(filter, sort, offset, limit) :
     filter \in QueryFilters, sort \in QuerySorts, offset \in 0..MaxOffset,
     limit \in {NoLimit} \cup (0..MaxLimit)}

QueryInit ==
  /\ data = EmptyMap /\ dirty = <<>> /\ jobs = <<>> /\ indexes = EmptyMap
  /\ schemas = EmptyMap /\ files = EmptyMap /\ phase = "closed" /\ call = NoCall
  /\ input \in [docs : QueryDocs, options : QueryOptions]
  /\ ret = NoRet

ApplyFindOptions ==
  /\ ret' = Returned("applyFindOptions", applyFindOptions(input.docs, input.options), 0)
  /\ UNCHANGED <<data, dirty, jobs, indexes, schemas, files, phase, call, input>>

CountWithFilter ==
  /\ ret' = Returned("countWithFilter", <<>>, countWithFilter(input.docs, input.options.filter))
  /\ UNCHANGED <<data, dirty, jobs, indexes, schemas, files, phase, call, input>>

SortDocuments ==
  /\ input.options.sort # <<>>
  /\ ret' = Returned("sortDocuments", sortDocuments(input.docs, input.options.sort), 0)
  /\ UNCHANGED <<data, dirty, jobs, indexes, schemas, files, phase, call, input>>

QueryNext == ApplyFindOptions \/ CountWithFilter \/ SortDocuments

Query == QueryInit /\ [][QueryNext]_vars

\* ------------------------------------------- specification: normalizeSchema
\* Raw schemas of one or two fields, each a shorthand type name or a full
\* definition with every combination of the optional flags.
Flags == {NoValue, Given(TRUE), Given(FALSE)}
FieldTypes == {StringType, NumberType}
RawDefs ==
  {Shorthand(t) : t \in FieldTypes}
    \cup {FieldDefinition(t, r, u, i, NoOptions) : t \in FieldTypes, r \in Flags, u \in Flags, i \in Flags}
RawSchemas ==
  {<<[field |-> "email", def |-> d]>> : d \in RawDefs}
    \cup {<<[field |-> "email", def |-> d], [field |-> "age", def |-> e]>> : d \in RawDefs, e \in RawDefs}

NormalizeInit ==
  /\ data = EmptyMap /\ dirty = <<>> /\ jobs = <<>> /\ indexes = EmptyMap
  /\ schemas = EmptyMap /\ files = EmptyMap /\ phase = "closed" /\ call = NoCall
  /\ input \in [schema : RawSchemas]
  /\ ret = NoRet

NormalizeSchema ==
  /\ ret' = [op |-> "normalizeSchema", schema |-> normalizeSchema(input.schema)]
  /\ UNCHANGED <<data, dirty, jobs, indexes, schemas, files, phase, call, input>>

Normalize == NormalizeInit /\ [][NormalizeSchema]_vars

\* ------------------------------------------ specification: validateDocument
\* Schemas of a string field and a number field with and without their
\* constraints; inputs with each key absent, undefined, null, of the wrong
\* type, inside and outside the constraints; one key outside the schema.
NameOptions ==
  {[NoOptions EXCEPT !.default = d, !.minLength = l, !.maxLength = l] :
     d \in {NoValue, Given(Str(1))}, l \in {NoValue, Given(1)}}
AgeOptions ==
  {[NoOptions EXCEPT !.min = r, !.max = r, !.enum = e] :
     r \in {NoValue, Given(2)}, e \in {NoValue, Given(<<1, 2>>)}}
ValidateSchemas ==
  {<<NormalizedField("name", StringType, rn, FALSE, FALSE, n),
     NormalizedField("age", NumberType, ra, FALSE, FALSE, a)>> :
     rn \in BOOLEAN, ra \in BOOLEAN, n \in NameOptions, a \in AgeOptions}

KeyValues(k) ==
  IF k = "name" THEN {Missing, Null, 1} \cup {Str(n) : n \in 0..MaxStr}
  ELSE IF k = "age" THEN {Null, Str(1)} \cup (1..MaxNumber)
  ELSE {Missing, 1}
InputKeys == {"name", "age", "updatedAt"}
ValidateInputs ==
  UNION {{d \in [K -> Missing..Str(MaxStr)] : \A k \in K : d[k] \in KeyValues(k)} :
           K \in SUBSET InputKeys}

ValidateInit ==
  /\ data = EmptyMap /\ dirty = <<>> /\ jobs = <<>> /\ indexes = EmptyMap
  /\ schemas = EmptyMap /\ files = EmptyMap /\ phase = "closed" /\ call = NoCall
  /\ input \in [data : ValidateInputs, schema : ValidateSchemas, isUpdate : BOOLEAN]
  /\ ret = NoRet

ValidateDocument ==
  \E r \in {validateDocument(input.data, input.schema, input.isUpdate)} :
    /\ ret' = [op |-> "validateDocument", err |-> r.err, field |-> r.field, doc |-> r.doc]
    /\ UNCHANGED <<data, dirty, jobs, indexes, schemas, files, phase, call, input>>

Validate == ValidateInit /\ [][ValidateDocument]_vars

\* ================================================================ claims
UniqueFields(c) == {schemas[c][i].field : i \in {j \in DOMAIN schemas[c] : schemas[c][j].unique}}
Declared(c) == c \in DOMAIN schemas /\ c \in DOMAIN data
Holders(docs, f, v) == {docs[i]["id"] : i \in {j \in DOMAIN docs : docs[j][f] = v}}

\* C1: when the collection holds a document d1 with a non-null value on a
\* unique field, insert of another document d2 with the same value fails with
\* UniqueConstraintError and leaves the document list as it was.
C1_SecondInsertRejected ==
  \A c \in Colls : Declared(c) =>
    \A i \in DOMAIN data[c], d2 \in Docs, f \in UniqueFields(c) :
      (d2["id"] \notin IdsOf(data[c]) /\ d2[f] # Null /\ d2[f] = data[c][i][f]) =>
        LET r == AdapterCall("insert", c, InsertArgs(d2))
        IN r.status = UniqueConstraint /\ r.data = data

\* C2: no two documents of a collection hold the same non-null value on a
\* field declared unique.
C2_UniqueValues ==
  \A c \in Colls : Declared(c) =>
    \A f \in UniqueFields(c), i, j \in DOMAIN data[c] :
      (i # j /\ data[c][i][f] # Null) => data[c][i][f] # data[c][j][f]

\* C3: for each indexed field and non-null value, the index entry is exactly
\* the set of ids of the collection's documents holding that value.
C3_IndexExact ==
  \A c \in DOMAIN indexes : c \in DOMAIN data =>
    \A i \in DOMAIN indexes[c] : \A v \in DOMAIN indexes[c][i].map :
      indexes[c][i].map[v] = Holders(data[c], indexes[c][i].field, v)

\* C4: an update that would give a document a unique-field value another
\* document holds fails with UniqueConstraintError and leaves every document
\* as it was.
C4_CollidingUpdateRejected ==
  \A c \in Colls : Declared(c) =>
    \A i, j \in DOMAIN data[c], patch \in Patches, f \in UniqueFields(c) :
      LET newDoc == Merge(data[c][i], patch)
      IN (i = findIndex(data[c], data[c][i]["id"]) /\ i # j /\ newDoc[f] # Null
          /\ newDoc[f] # data[c][i][f] /\ newDoc[f] = data[c][j][f]) =>
           LET r == AdapterCall("update", c, UpdateArgs(data[c][i]["id"], patch))
           IN r.status = UniqueConstraint /\ r.data = data

\* What createCollection with the same schema leaves in collection c.
Recreated(d, c) == createCollection(d, <<>>, c).data[c]

\* C5: when every call has resolved, disconnect() is called and a fresh
\* adapter connects and re-creates a collection, it sees the documents the
\* previous adapter held, in the same order.
C5_RoundTrip ==
  [][(call = Called("disconnect", "ok") /\ jobs = <<>> /\ phase' = "open") =>
       \A c \in DOMAIN data : Recreated(data', c) = data[c]]_vars

\* C6: flush callbacks run one at a time in call order: only the oldest
\* unresolved flush has started its writes, and a flush resolves only when
\* it is the oldest and has no write left.
C6_FlushSerialized ==
  [][/\ \A i \in DOMAIN jobs' : jobs'[i].pc # "queued" => i = 1
     /\ (call' = NoCall /\ Len(jobs') < Len(jobs)) =>
          /\ jobs' = Tail(jobs)
          /\ jobs[1].pc \notin {"writing", "written"}
          /\ SkipMissing(data, jobs[1].toWrite) = <<>>]_vars

C6_Witness ==
  /\ Len(jobs) = 2
  /\ jobs[1].pc = "writing"
  /\ jobs[2].pc = "queued"
  /\ jobs[1].buf.body # <<>>

\* C7: a collection's file always holds a complete text: a step changes it
\* only to the complete text a flush is writing, whatever step (a crash
\* included) comes between.
C7_AtomicReplace ==
  [][\A c \in DOMAIN files' :
       /\ CanParse(files'[c])
       /\ \/ c \in DOMAIN files /\ files'[c] = files[c]
          \/ \E i \in DOMAIN jobs :
               /\ jobs[i].pc = "written"
               /\ Head(jobs[i].toWrite) = c
               /\ files'[c] = jobs[i].buf]_vars

C7_Witness ==
  /\ call = Called("crash", "midwrite")
  /\ Users \in DOMAIN files
  /\ CanParse(files[Users])

ArgsOf(op) ==
  CASE op = "insert" -> {InsertArgs(doc) : doc \in Docs}
    [] op = "update" -> {UpdateArgs(id, patch) : id \in Ids, patch \in Patches}
    [] op \in {"delete", "findById"} -> {IdArgs(id) : id \in Ids}
    [] op \in {"deleteMany", "find"} -> {QueryArgs(q) : q \in Queries}
    [] op = "count" -> {CountArgs(NoFilter)} \cup {CountArgs(SomeFilter(q)) : q \in Queries}

\* C8: every collection-scoped call on a collection that does not exist
\* fails with CollectionNotFoundError and leaves collections, documents,
\* indexes, the dirty set and the write queue as they were.
C8_MissingCollection ==
  \A c \in Colls : ~hasCollection(data, c) =>
    \A op \in Ops : \A args \in ArgsOf(op) :
      LET r == AdapterCall(op, c, args)
      IN /\ r.status = CollectionNotFound
         /\ r.data = data /\ r.indexes = indexes /\ r.dirty = dirty /\ r.jobs = jobs

C8_Witness ==
  /\ call.status = CollectionNotFound
  /\ call.op \in Ops
  /\ Users \notin DOMAIN data
  /\ jobs # <<>>

UniqueIds(docs) == \A i, j \in DOMAIN docs : i # j => docs[i]["id"] # docs[j]["id"]

InsertsPresentId ==
  \E c \in DOMAIN data \cap DOMAIN data' :
    /\ Len(data'[c]) = Len(data[c]) + 1
    /\ data'[c][Len(data'[c])]["id"] \in IdsOf(data[c])

C10_UpdateMerges ==
  \A c \in DOMAIN data : \A id \in Ids, patch \in Patches :
    LET r == AdapterCall("update", c, UpdateArgs(id, patch))
        k == findIndex(data[c], id)
    IN /\ id \notin IdsOf(data[c]) =>
            /\ r.status = "null"
            /\ r.data = data /\ r.indexes = indexes /\ r.dirty = dirty /\ r.jobs = jobs
       /\ id \in IdsOf(data[c]) => r.status \in {"ok", UniqueConstraint}
       /\ r.status = "ok" =>
            /\ Len(r.data[c]) = Len(data[c])
            /\ \A m \in DOMAIN data[c] : m # k => r.data[c][m] = data[c][m]
            /\ r.data[c][k]["id"] = data[c][k]["id"]
            /\ \A f \in Fields \ {"id"} :
                 r.data[c][k][f] = IF f \in DOMAIN patch THEN patch[f] ELSE data[c][k][f]

C10_Witness ==
  /\ call = Called("update", "ok")
  /\ Users \in DOMAIN data
  /\ Len(data[Users]) = 2
  /\ \A f \in Fields : data[Users][2][f] # Null
  /\ data[Users][1]["email"] = Null

\* C11: deleteMany removes exactly the documents matching the filter, keeps
\* the others in order, leaves no deleted id in any index of the collection,
\* returns the number removed and queues one flush for the batch (none when
\* nothing matched).
C11_DeleteManyExact ==
  \A c \in DOMAIN data : \A query \in Queries :
    LET r == AdapterCall("deleteMany", c, QueryArgs(query))
        gone == {i \in DOMAIN data[c] : matchesFilter(data[c][i], query)}
        goneIds == {data[c][i]["id"] : i \in gone}
    IN /\ r.data[c] = SelectSeq(data[c], LAMBDA d : ~matchesFilter(d, query))
       /\ r.n = Cardinality(gone)
       /\ c \in DOMAIN r.indexes =>
            \A i \in DOMAIN r.indexes[c] : \A v \in DOMAIN r.indexes[c][i].map :
              r.indexes[c][i].map[v] \cap goneIds = {}
       /\ Len(r.jobs) = Len(jobs) + (IF gone # {} THEN 1 ELSE 0)

UniqueFieldsOf(schema) == {schema[i].field : i \in {j \in DOMAIN schema : schema[j].unique}}

\* C12: when a fresh adapter has connected and createCollection is called
\* with the schema, the loaded documents stay as loaded and an insert of a
\* document repeating a loaded document's unique-field value fails with
\* UniqueConstraintError.
C12_RestartKeepsUnique ==
  [][(call = Called("connect", "ok") /\ call' = Called("createCollection", "ok")) =>
       \A c \in DOMAIN schemas' :
         /\ c \in DOMAIN data => data'[c] = data[c]
         /\ \A i \in DOMAIN data'[c], d2 \in Docs, f \in UniqueFieldsOf(schemas'[c]) :
              (d2[f] # Null /\ d2[f] = data'[c][i][f]) =>
                LET r == CallOn(data', indexes', dirty', jobs', "insert", c, InsertArgs(d2))
                IN r.status = UniqueConstraint /\ r.data = data']_vars

C12_Witness ==
  /\ call = Called("createCollection", "ok")
  /\ Users \in DOMAIN files /\ CanParse(files[Users])
  /\ Users \in DOMAIN data /\ data[Users] = JSONparse(files[Users])
  /\ \E i \in DOMAIN data[Users] : data[Users][i]["email"] # Null
  /\ findByValue(indexes, Users, "email", data[Users][1]["email"]) # {}

\* C18: countWithFilter(D, F) is the length of applyFindOptions(D, {filter: F}),
\* and the length of D when there is no filter.
C18_CountIsFindLength ==
  ret.op = "countWithFilter" =>
    /\ ret.n = Len(applyFindOptions(input.docs, FilterOnly(input.options.filter)))
    /\ input.options.filter = NoFilter => ret.n = Len(input.docs)

C18_Witness ==
  /\ ret.op = "countWithFilter"
  /\ input.options.filter # NoFilter
  /\ ret.n = 1
  /\ Len(input.docs) = 3

\* C19: the result of applyFindOptions is the first limit elements, after
\* skipping offset elements, of the sorted list of the documents matching
\* the filter.
C19_PipelineOrder ==
  ret.op = "applyFindOptions" =>
    LET o == input.options
        matching == SelectSeq(input.docs, LAMBDA d : o.filter.none \/ matchesFilter(d, o.filter.query))
        sorted == IF o.sort = <<>> THEN matching ELSE sortDocuments(matching, o.sort)
        first == Min(o.offset, Len(sorted)) + 1
        last == IF o.limit = NoLimit THEN Len(sorted) ELSE Min(o.offset + o.limit, Len(sorted))
    IN ret.docs = [i \in 1..(IF last < first THEN 0 ELSE last - first + 1) |-> sorted[first + i - 1]]

C19_Witness ==
  /\ ret.op = "applyFindOptions"
  /\ input.options.filter # NoFilter /\ input.options.sort = <<SortKey("age", 1)>>
  /\ input.options.offset = 1 /\ input.options.limit = 1
  /\ Len(input.docs) = 3
  /\ Len(ret.docs) = 1 /\ ret.docs[1]["id"] = 1

\* The first sort key on which a and b differ, 0 when none.
FirstDifference(a, b, sort) ==
  IF \E k \in DOMAIN sort : a[sort[k].field] # b[sort[k].field]
    THEN CHOOSE k \in DOMAIN sort :
           /\ a[sort[k].field] # b[sort[k].field]
           /\ \A j \in 1..(k - 1) : a[sort[j].field] = b[sort[j].field]
    ELSE 0

\* a may stand before b in a list sorted by sort: equal on all keys and
\* earlier in the original list, or in order on the first key they differ
\* on, a null or missing value after every present one when ascending and
\* before when descending.
InOrder(a, b, sort) ==
  LET k == FirstDifference(a, b, sort)
  IN IF k = 0 THEN a["id"] < b["id"]
     ELSE LET av == a[sort[k].field]
              bv == b[sort[k].field]
          IN CASE IsAbsent(av) /\ IsAbsent(bv) -> TRUE
               [] IsAbsent(av) -> sort[k].dir < 0
               [] IsAbsent(bv) -> sort[k].dir > 0
               [] OTHER -> IF sort[k].dir > 0 THEN av < bv ELSE av > bv

\* C20: sortDocuments returns the documents ordered by the sort keys, ties
\* falling through to the next key, documents equal on all keys in their
\* original order, null or missing values last ascending and first descending.
C20_SortedStable ==
  ret.op = "sortDocuments" =>
    /\ Len(ret.docs) = Len(input.docs)
    /\ \A i \in DOMAIN input.docs : \E j \in DOMAIN ret.docs : ret.docs[j] = input.docs[i]
    /\ \A i, j \in DOMAIN ret.docs : i < j => InOrder(ret.docs[i], ret.docs[j], input.options.sort)

\* ---------------------------------------------------------------- C13
Ready == \A c \in RelColls : hasCollection(data, c)
Undeclared(model, include) ==
  {include[i] : i \in DOMAIN include} \ DOMAIN model.relations

ReadsOf(d, model, include) ==
  {ModelFind(d, model, FilterOnly(NoFilter), include)}
    \cup {ModelFindById(d, model, id, include) : id \in RelIds}
    \cup {ModelFindOne(d, model, [f \in {"id"} |-> BareCond(id)], include) : id \in RelIds}

\* C13: every read of posts whose include list names a relation the model
\* does not declare throws a SeedORMError naming that relation and the model.
C13_UnknownRelationRaises ==
  Ready =>
    \A include \in Includes :
      Undeclared(PostModel, include) # {} =>
        \A r \in ReadsOf(data, PostModel, include) :
          /\ r.err.kind = "SeedORMError"
          /\ r.err.relation \in Undeclared(PostModel, include)
          /\ r.err.model = PostModel.name

\* ---------------------------------------------------------------- C14
\* The related documents a join row ties to the parent.
Joined(d, parentId) ==
  {t \in {d[Tags][i] : i \in DOMAIN d[Tags]} :
     \E k \in DOMAIN d[PostTags] :
       d[PostTags][k]["postId"] = parentId /\ d[PostTags][k]["tagId"] = t["id"]}

AttachedTo(doc, relationName) == {doc[relationName][i] : i \in DOMAIN doc[relationName]}

ExactlyJoined(d, docs) ==
  \A i \in DOMAIN docs :
    /\ "tags" \in DOMAIN docs[i]
    /\ AttachedTo(docs[i], "tags") = Joined(d, docs[i]["id"])

\* C14: whatever associate and dissociate calls came before, find and
\* findById with include ["tags"] return every post with exactly the tags a
\* join row ties to it (none for a post without a join row), and right after
\* dissociate(p, "tags", t) no read attaches t to p.
C14_ManyToManyExact ==
  Ready =>
    /\ \E r \in {ModelFind(data, PostModel, FilterOnly(NoFilter), <<"tags">>)} :
         /\ r.err = NoError
         /\ [i \in DOMAIN r.docs |-> r.docs[i]["id"]] = [i \in DOMAIN data[Posts] |-> data[Posts][i]["id"]]
         /\ ExactlyJoined(data, r.docs)
    /\ \A id \in IdsOf(data[Posts]) :
         \E r \in {ModelFindById(data, PostModel, id, <<"tags">>)} :
           r.err = NoError /\ Len(r.docs) = 1 /\ r.docs[1]["id"] = id /\ ExactlyJoined(data, r.docs)
    /\ (ret.op = "dissociate" /\ ret.err = NoError) =>
         \A i \in DOMAIN data[Posts] :
           data[Posts][i]["id"] = ret.id =>
             \E r \in {ModelFindById(data, PostModel, ret.id, <<"tags">>)} :
               \A t \in AttachedTo(r.docs[1], "tags") : t["id"] # ret.relatedId

\* A post with two tags lost one of them by dissociate and keeps the other.
C14_Witness ==
  /\ Ready
  /\ ret.op = "dissociate" /\ ret.err = NoError /\ ret.n = 1
  /\ ret.id \in IdsOf(data[Posts])
  /\ Cardinality(Joined(data, ret.id)) = 1

\* ---------------------------------------------------------------- C15
Plain(docs) == \A i \in DOMAIN docs : DOMAIN docs[i] \cap RelationNames = {}

\* C15: no document of the in-memory collections, of a file or of a pending
\* write carries a relation field, and a read without include returns none.
C15_IncludeLeavesStore ==
  /\ \A c \in DOMAIN data : Plain(data[c])
  /\ \A c \in DOMAIN files : Plain(files[c].body)
  /\ \A i \in DOMAIN jobs : Plain(jobs[i].buf.body) /\ Plain(jobs[i].tmp.body)
  /\ (ret.op \in ModelReads /\ ret.include = <<>>) => Plain(ret.docs)
  /\ hasCollection(data, Posts) => Plain(ModelFind(data, PostModel, FilterOnly(NoFilter), <<>>).docs)

\* A read with include has attached a tag, and the posts file was written
\* with the post in it.
C15_Witness ==
  /\ ret.op = "find" /\ ret.include = <<"tags">> /\ ret.err = NoError
  /\ \E i \in DOMAIN ret.docs : ret.docs[i]["tags"] # <<>>
  /\ Posts \in DOMAIN files /\ files[Posts].body # <<>>

\* ---------------------------------------------------------------- C16
\* The statuses with which a call's promise rejects in its synchronous part.
Rejects(status) == status \in {CollectionNotFound, UniqueConstraint}

\* C16: an insert, update or delete that rejects leaves the documents and
\* the indexes as they were before the call.
C16_FailedCallNoEffect ==
  \A c \in Colls, op \in {"insert", "update", "delete"} :
    \A args \in ArgsOf(op) :
      \E r \in {AdapterCall(op, c, args)} :
        Rejects(r.status) => r.data = data /\ r.indexes = indexes

\* ---------------------------------------------------------------- C17
\* The document Model.create stores for an item.
Created(item, id) == MapSet(item, "id", id)

FailedAt(k) ==
  /\ ret.op = "createMany" /\ ret.state = "failed" /\ ret.k = k
  /\ ret.err.kind \in {ValidationError, UniqueConstraint}

\* The first k-1 items are stored, in list order, and nothing else is.
StoredUpTo(k) ==
  /\ Len(ret.results) = k - 1
  /\ data[Users] = [i \in 1..(k - 1) |-> Created(ret.items[i], ret.results[i])]

\* C17: when createMany has failed at its k-th item by validation or by a
\* unique constraint, the collection holds exactly the documents of the first
\* k-1 items, in list order, and users.json holds them too.
C17_CreateManyPrefix ==
  \A k \in 1..MaxItems :
    FailedAt(k) =>
      /\ StoredUpTo(k)
      /\ Users \in DOMAIN files /\ CanParse(files[Users])
      /\ JSONparse(files[Users]) = data[Users]

\* C21: every field of a schema returned by normalizeSchema satisfies
\* unique => index, whatever the form of the raw definition.
C21_UniqueImpliesIndex ==
  ret.op = "normalizeSchema" =>
    \A i \in DOMAIN ret.schema : ret.schema[i].unique => ret.schema[i].index

\* C22: validateDocument in update mode validates only the fields present
\* in the input: absent schema fields are left out of the result without
\* default and without the required check, present schema fields get the
\* type, length, range and enum checks, and keys outside the schema pass
\* through unchanged.
Present(schema, data_) ==
  {i \in DOMAIN schema : Get(data_, schema[i].field) # Missing}
PassedThrough(schema, data_) ==
  {k \in DOMAIN data_ : k \notin SchemaFields(schema) /\ data_[k] # Missing}
Conforms(v, def) ==
  /\ v = Null \/ def.type = JsonType \/ typeOf(v) = def.type
  /\ (def.type = StringType /\ v # Null /\ def.options.minLength # NoValue)
       => length(v) >= def.options.minLength[1]
  /\ (def.type = StringType /\ v # Null /\ def.options.maxLength # NoValue)
       => length(v) <= def.options.maxLength[1]
  /\ (def.type = NumberType /\ v # Null /\ def.options.min # NoValue)
       => v >= def.options.min[1]
  /\ (def.type = NumberType /\ v # Null /\ def.options.max # NoValue)
       => v <= def.options.max[1]
  /\ def.options.enum # NoValue
       => \E j \in DOMAIN def.options.enum[1] : def.options.enum[1][j] = v
Offending(schema, data_) ==
  {i \in Present(schema, data_) : ~Conforms(data_[schema[i].field], schema[i])}
C22_UpdateModePartial ==
  (ret.op = "validateDocument" /\ input.isUpdate) =>
    IF Offending(input.schema, input.data) = {}
      THEN /\ ret.err = "none"
           /\ DOMAIN ret.doc =
                {input.schema[i].field : i \in Present(input.schema, input.data)}
                  \cup PassedThrough(input.schema, input.data)
           /\ \A k \in DOMAIN ret.doc : ret.doc[k] = input.data[k]
    ELSE /\ ret.err = ValidationError
         /\ \E i \in Offending(input.schema, input.data) :
              /\ ret.field = input.schema[i].field
              /\ \A j \in Offending(input.schema, input.data) : i <= j
C22_Witness ==
  /\ ret.op = "validateDocument" /\ input.isUpdate /\ ret.err = "none"
  /\ input.schema[1].required /\ input.schema[1].options.default # NoValue
  /\ "name" \notin DOMAIN input.data /\ "name" \notin DOMAIN ret.doc
  /\ "age" \in DOMAIN ret.doc /\ input.schema[2].options.min # NoValue
  /\ "updatedAt" \in DOMAIN ret.doc

\* C23: when onInsert raises UniqueConstraintError for a document, every
\* index of the collection is as it was before the call (the document's id
\* has been added to no index), whatever the order of the indexed fields.
C23_FailedInsertLeavesIndexes ==
  \A c \in DOMAIN indexes : \A doc \in Docs :
    \A r \in {onInsert(indexes, c, doc)} :
      r.err = UniqueConstraint => r.indexes[c] = indexes[c]

\* C24: when onUpdate finds the new value of a unique field held by another
\* document, it fails with every index entry of the collection as it was
\* before the call, the entry of the document's old value included.
C24_FailedUpdateLeavesIndexes ==
  \A c \in DOMAIN indexes : c \in DOMAIN data =>
    \A i \in DOMAIN data[c] : \A patch \in Patches :
      \A r \in {onUpdate(indexes, c, data[c][i], Merge(data[c][i], patch))} :
        r.err = UniqueConstraint => r.indexes[c] = indexes[c]

\* C25: once every call's promise has resolved (no flush callback is left),
\* each collection's file holds exactly the collection's current in-memory
\* document list.
C25_QuiescentFilesCurrent ==
  (phase = "open" /\ jobs = <<>>) =>
    \A c \in DOMAIN data :
      c \in DOMAIN files /\ CanParse(files[c]) /\ JSONparse(files[c]) = data[c]

\* C26: once dropCollection has resolved and every write queued before it
\* has completed, no file is left for a collection the store does not hold,
\* also when a write of the collection was in progress at the drop.
C26_DroppedFileGone ==
  (phase = "open" /\ jobs = <<>>) => \A c \in DOMAIN files : hasCollection(data, c)

\* C27: a collection changed by insert, update, delete or deleteMany is in
\* the dirty set the call's flush() takes: the flush enqueued by the call
\* is to write the collection, and leaves the dirty set empty.
Mutations == {"insert", "update", "delete", "deleteMany"}
C27_ChangedIsFlushed ==
  \A c \in Colls : Declared(c) =>
    \A op \in Mutations : \A args \in ArgsOf(op) :
      \A r \in {AdapterCall(op, c, args)} :
        r.data # data =>
          /\ r.dirty = <<>>
          /\ Len(r.jobs) = Len(jobs) + 1
          /\ \E k \in DOMAIN r.jobs[Len(r.jobs)].toWrite :
               r.jobs[Len(r.jobs)].toWrite[k] = c

\* C28: when no document holds value v on the unique field and two calls
\* that each give a document that value (two inserts, or an insert and an
\* update of another document) are issued one after the other, the second
\* before the first one's flush has completed, then in either order the
\* first succeeds and the second fails with UniqueConstraintError, leaving
\* the documents as the first left them.
Givers(d, c, v) ==
  {[op |-> "insert", id |-> doc["id"], args |-> InsertArgs(doc)] :
     doc \in {x \in Docs : x["email"] = v /\ x["id"] \notin IdsOf(d[c])}}
    \cup {[op |-> "update", id |-> id, args |-> UpdateArgs(id, [f \in {"email"} |-> v])] :
            id \in IdsOf(d[c])}
C28_OneOfTwoSucceeds ==
  \A c \in Colls : Declared(c) =>
    \A v \in 1..MaxEmail : Holders(data[c], "email", v) = {} =>
      \A a \in Givers(data, c, v) :
        \A r1 \in {CallOn(data, indexes, dirty, jobs, a.op, c, a.args)} :
          /\ r1.status = "ok"
          /\ r1.jobs # <<>>
          /\ \A b \in Givers(r1.data, c, v) :
               (b.id # a.id /\ "insert" \in {a.op, b.op}) =>
                 \A r2 \in {CallOn(r1.data, r1.indexes, r1.dirty, r1.jobs, b.op, c, b.args)} :
                   r2.status = UniqueConstraint /\ r2.data = r1.data
C28_Witness ==
  /\ call \in {Called("insert", UniqueConstraint), Called("update", UniqueConstraint)}
  /\ Len(jobs) >= 1 /\ jobs[Len(jobs)].pc = "queued"
  /\ \E v \in 1..MaxEmail : Cardinality(Holders(data[Users], "email", v)) = 1

\* C29: a step in which a write or a flush rejects leaves the write queue
\* rejected, and from a rejected queue every step leaves it rejected, starts
\* no later flush callback and writes no file.
Poisoned(js) == js # <<>> /\ js[1].pc = "rejected"
C29_QueueNeverRecovers ==
  [][/\ call'.status = "rejected" => Poisoned(jobs')
     /\ Poisoned(jobs) =>
          /\ Poisoned(jobs')
          /\ \A i \in DOMAIN jobs' : i > 1 => jobs'[i].pc = "queued"
          /\ \A c \in DOMAIN files' : c \in DOMAIN files /\ files'[c] = files[c]]_vars
C29_Witness ==
  /\ call = Called("flush", "rejected")
  /\ Poisoned(jobs)
  /\ hasCollection(data, Users)
  /\ Users \notin DOMAIN files

\* C30: every stored document of the model's collection holds a present,
\* non-null value on every schema field declared required.
C30_RequiredHeld ==
  hasCollection(data, Users) =>
    \A i \in DOMAIN data[Users] : \A k \in DOMAIN UserModel.schema :
      UserModel.schema[k].required =>
        ~IsAbsent(Get(data[Users][i], UserModel.schema[k].field))

====
